---- MODULE Spec2Model ----
(***************************************************************************)
(* Receipt / item state-transition core of the kirppu checkout API         *)
(* (kirppu/checkout_api.py).  Every AJAX handler is one atomic action: the *)
(* handlers run inside transaction.atomic and take row locks with          *)
(* select_for_update before they read what they write.  The only handler   *)
(* that reads without a lock and writes afterwards is receipt_start; it is *)
(* split into its read step and its save step.                             *)
(*                                                                         *)
(* Every handler has a response operator (X_response) that computes the    *)
(* response kind from the state before the call, following the order of    *)
(* the handler's checks.  All error responses of the handlers are raised   *)
(* before their first write (or are rolled back by the atomic block), so a *)
(* failing call is a step that leaves every variable unchanged.            *)
(***************************************************************************)
EXTENDS Integers, Sequences, FiniteSets, TLC

\* ---------------------------------------------------------------- bounds
MaxReceipts == 3      \* rows of the Receipt table
MaxOpened == 2        \* receipts opened at the counters in Spec and SpecItems
MaxRows == 4          \* rows of the ReceiptItem table
MaxRetries == 2       \* short codes drawn by one vendor/token/create
MaxExtras == 1        \* rows of the ReceiptExtraRow table

\* ------------------------------------------------------- fixed population
None == 0
Sessions == {1, 2}                 \* browser sessions (one per counter)
Clerks == {1, 2}
Vendors == {1, 2}
UnknownVendor == 3    \* a vendor id that is not in the Vendor table
Items == {1, 2, 3, 4}              \* item codes; items 3 and 4 form a box
NItems == Cardinality(Items)
Codes == {1, 2}                    \* short codes of the configured length
Prices == {1, 2}                   \* minor currency units

box_id(i) == IF i \in {3, 4} THEN 1 ELSE None
SingleItems == {i \in Items : box_id(i) = None}
representative_item(b) == 3
vendor_id(i) == IF i \in {3, 4} THEN 2 ELSE 1

\* Item.STATE (the state codes)
ADVERTISED == "AD"
BROUGHT == "BR"
STAGED == "ST"
SOLD == "SO"
MISSING == "MI"
RETURNED == "RE"
COMPENSATED == "CO"
ItemStates == {ADVERTISED, BROUGHT, STAGED, SOLD, MISSING, RETURNED, COMPENSATED}

\* Receipt.status, Receipt.type
PENDING == "PEND"
SUSPENDED == "SUSP"
FINISHED == "FINI"
ABORTED == "ABRT"
TYPE_PURCHASE == "PURCHASE"
TYPE_COMPENSATION == "COMPENSATION"

\* ReceiptItem.action
ADD == "ADD"
REMOVED_LATER == "RL"
REMOVE == "DEL"

\* ReceiptExtraRow.type
TYPE_PROVISION == "PRO"
TYPE_PROVISION_FIX == "PRO_FIX"

\* AjaxError codes / response kinds
STATE_UNUSED == "unused"
STATE_INVALIDATED == "invalidated"
ACTION_ADD == "add"
ACTION_INVALIDATE == "invalidate"
RET_OK == "OK"
RET_ACCEPTED == "Accepted"
RET_BAD_REQUEST == "BadRequest"
RET_CONFLICT == "Conflict"
RET_LOCKED == "Locked"
RET_NOT_FOUND == "NotFound"
RET_SERVER_ERROR == "ServerError"
NO_ERROR == "NoError"

VARIABLES
    items,              \* Item table: code -> [state, price, abandoned, lost_property]
    box_number,         \* Box.box_number of the one box (None = unassigned)
    receipts,           \* Receipt table, pk = index
    rows,               \* ReceiptItem table: <<receipt, item, action>> -> number of rows
    extras,             \* ReceiptExtraRow table
    session,            \* request.session of every browser session
    pc,                 \* request in flight in a session (receipt_start)
    txn,                \* open database transaction of a session and the row locks it holds
    max_brought_items,  \* Event.max_brought_items (None = no cap)
    permits,            \* TemporaryAccessPermit rows: vendor, state, short_code
    permit_log          \* TemporaryAccessPermitLog rows: permit, action

db == <<items, box_number, receipts, rows, extras>>
access == <<permits, permit_log>>
store == <<items, box_number, receipts, rows, extras, session, pc, max_brought_items, access>>
vars == <<store, txn>>

\* No transaction open: the session holds no row lock.
NoTxn == [op |-> "", item |-> None, id |-> None, held |-> {}]

\* ----------------------------------------------------------------- helpers
Actions == {ADD, REMOVED_LATER, REMOVE}
RowKeys == (1..MaxReceipts) \X Items \X Actions

\* Sum of f(1) .. f(n).
RECURSIVE SumTo(_, _)
SumTo(f(_), n) == IF n = 0 THEN 0 ELSE f(n) + SumTo(f, n - 1)

RECURSIVE SumSeq(_, _)
SumSeq(f(_), s) == IF s = <<>> THEN 0 ELSE f(Head(s)) + SumSeq(f, Tail(s))

Idx(s) == 1..Len(s)

\* Number of rows in the ReceiptItem table, and of one receipt and action.
ActionCount(rws, rid, action) == LET n(i) == rws[<<rid, i, action>>] IN SumTo(n, NItems)
RowCount(rws) ==
    LET n(r) == ActionCount(rws, r, ADD) + ActionCount(rws, r, REMOVED_LATER)
                + ActionCount(rws, r, REMOVE)
    IN SumTo(n, MaxReceipts)

\* Fault model: the row is created twice (ReceiptItem.objects.create
\* followed by receipt.items.create).
create_row_twice(rws, rid, i, action) == [rws EXCEPT ![<<rid, i, action>>] = @ + 2]

\* ReceiptItem.objects.create / ReceiptItem(...).save()
create_row(rws, rid, i, action) == [rws EXCEPT ![<<rid, i, action>>] = @ + 1]

\* Receipt.calculate_total: prices of the items linked by an ADD row, read
\* from the Item table at compute time, plus the values of the extra rows.
calculate_total(rid, its, rws, exs) ==
    LET itemPart(i) == rws[<<rid, i, ADD>>] * its[i].price
        extraPart(e) == IF e.receipt = rid THEN e.value ELSE 0
    IN SumTo(itemPart, NItems) + SumSeq(extraPart, exs)

\* Items with an ADD row on the receipt.
added_items(rws, rid) == {i \in Items : rws[<<rid, i, ADD>>] > 0}

\* ajax_util.require_user_features(clerk=True): a clerk is logged in.
LoggedIn(s) == session[s].clerk # None /\ pc[s] = "idle"

\* Fault model: an availability check that lets a Staged item through.
raise_if_item_not_available_unlocked(state) ==
    IF state \in {SOLD, COMPENSATED} THEN RET_CONFLICT
    ELSE IF state = RETURNED THEN RET_CONFLICT
    ELSE NO_ERROR

\* raise_if_item_not_available: the error it raises, or NO_ERROR.
raise_if_item_not_available(state) ==
    IF state = STAGED THEN RET_LOCKED
    ELSE IF state \in {SOLD, COMPENSATED} THEN RET_CONFLICT
    ELSE IF state = RETURNED THEN RET_CONFLICT
    ELSE NO_ERROR

\* forms.remove_item_from_receipt on a database value d = [items, rows,
\* receipts, extras]: one ADD row of the item on the receipt is reclassified,
\* a REMOVE row is added, the total is recomputed and the item is set to
\* BROUGHT.  The caller checks that the ADD row exists.
remove_item_from_receipt(d, i, rid) ==
    LET rws == [d.rows EXCEPT ![<<rid, i, ADD>>] = @ - 1,
                              ![<<rid, i, REMOVED_LATER>>] = @ + 1,
                              ![<<rid, i, REMOVE>>] = @ + 1]
        its == [d.items EXCEPT ![i].state = BROUGHT]
    IN [items |-> its,
        rows |-> rws,
        receipts |-> [d.receipts EXCEPT ![rid].total = calculate_total(rid, d.items, rws, d.extras)],
        extras |-> d.extras]

RECURSIVE remove_from_receipts(_, _, _)
remove_from_receipts(d, i, rids) ==
    IF rids = {} THEN d
    ELSE LET rid == CHOOSE r \in rids : \A q \in rids : r <= q
         IN remove_from_receipts(remove_item_from_receipt(d, i, rid), i, rids \ {rid})

Database == [items |-> items, rows |-> rows, receipts |-> receipts, extras |-> extras]

\* Fault model: a request that fails keeps what it has written.
transaction_commit(atomic, before, written) == written

\* transaction.atomic(fn): what a request that fails leaves in the database,
\* `before` when the handler is decorated atomic=True and what it had written
\* by then otherwise.
transaction_atomic(atomic, before, written) == IF atomic THEN before ELSE written

\* ------------------------------------------------------------------- Init
Init ==
    /\ items = [i \in Items |-> [state |-> ADVERTISED, price |-> 1, abandoned |-> FALSE, lost_property |-> FALSE]]
    /\ box_number = None
    /\ receipts = <<>>
    /\ rows = [k \in RowKeys |-> 0]
    /\ extras = <<>>
    /\ session = [s \in Sessions |-> [clerk |-> None, receipt |-> None, compensation |-> None]]
    /\ pc = [s \in Sessions |-> "idle"]
    /\ txn = [s \in Sessions |-> NoTxn]
    /\ max_brought_items = None
    /\ permits = <<>>
    /\ permit_log = <<>>

\* ------------------------------------------------------- session handling
\* Pending purchase receipts of a clerk (the query of clerk_login and
\* receipt_start).
active_receipts(clerk) ==
    {r \in Idx(receipts) : /\ receipts[r].clerk = clerk
                           /\ receipts[r].status = PENDING
                           /\ receipts[r].type = TYPE_PURCHASE}

\* clerk/login: the session gets the clerk; the clerk's only pending receipt
\* is attached, a reference is dropped when the clerk has no pending receipt
\* and is left alone when the clerk has several.
clerk_login(s, c) ==
    /\ pc[s] = "idle"
    /\ LET ar == active_receipts(c)
           rcpt == IF Cardinality(ar) > 1 THEN session[s].receipt
                   ELSE IF Cardinality(ar) = 1 THEN CHOOSE r \in ar : TRUE
                   ELSE None
       IN session' = [session EXCEPT ![s].clerk = c, ![s].receipt = rcpt]
    /\ UNCHANGED <<db, pc, max_brought_items, access, txn>>

\* clerk/logout (clerk_logout_fn): pops clerk, clerk_token, counter, event
\* and receipt; the key "compensation" is not in the list.
clerk_logout_fn(s) == [session EXCEPT ![s].clerk = None, ![s].receipt = None]

clerk_logout(s) ==
    /\ pc[s] = "idle"
    /\ session' = clerk_logout_fn(s)
    /\ UNCHANGED <<db, pc, max_brought_items, access, txn>>

\* counter/validate with the identifier of a counter of the event: the
\* session is logged out.
counter_validate(s) ==
    /\ pc[s] = "idle"
    /\ session' = clerk_logout_fn(s)
    /\ UNCHANGED <<db, pc, max_brought_items, access, txn>>

\* receipt/start, up to the count query: the two checks.
receipt_start_response(s) ==
    IF session[s].receipt # None THEN RET_CONFLICT
    ELSE IF Cardinality(active_receipts(session[s].clerk)) > 0 THEN RET_CONFLICT
    ELSE RET_OK

\* receipt/start, first step: the checks pass and the request goes on to
\* create the receipt.  Nothing is locked by the count query.
receipt_start(s) ==
    /\ LoggedIn(s)
    /\ IF receipt_start_response(s) = RET_OK
       THEN /\ Len(receipts) < MaxReceipts
            /\ pc' = [pc EXCEPT ![s] = "start"]
            /\ UNCHANGED <<db, session, max_brought_items, access, txn>>
       ELSE UNCHANGED vars

\* receipt/start, from receipt.save() on: the receipt is created and stored
\* in the session.
receipt_start_save(s) ==
    /\ pc[s] = "start"
    /\ Len(receipts) < MaxReceipts
    /\ receipts' = Append(receipts, [clerk |-> session[s].clerk, type |-> TYPE_PURCHASE,
                                     status |-> PENDING, total |-> 0, ended |-> FALSE,
                                     vendor |-> None])
    /\ session' = [session EXCEPT ![s].receipt = Len(receipts) + 1]
    /\ pc' = [pc EXCEPT ![s] = "idle"]
    /\ UNCHANGED <<items, box_number, rows, extras, max_brought_items, access, txn>>

\* Fault model: a Suspended receipt is activated like a Pending one.
receipt_activate_response_suspended(s, id) ==
    IF /\ id \in Idx(receipts)
       /\ receipts[id].clerk = session[s].clerk
       /\ receipts[id].status \in {PENDING, SUSPENDED}
       /\ receipts[id].type = TYPE_PURCHASE
    THEN RET_OK ELSE RET_NOT_FOUND

\* receipt/activate: a pending purchase receipt of the session's clerk
\* becomes the session's active receipt; 404 otherwise.
receipt_activate_response(s, id) ==
    IF /\ id \in Idx(receipts)
       /\ receipts[id].clerk = session[s].clerk
       /\ receipts[id].status = PENDING
       /\ receipts[id].type = TYPE_PURCHASE
    THEN RET_OK ELSE RET_NOT_FOUND

\* The sessions receipt/activate leaves behind.
receipt_activate_result(s, id) ==
    IF receipt_activate_response(s, id) = RET_OK
    THEN [session EXCEPT ![s].receipt = id]
    ELSE session

receipt_activate(s, id) ==
    /\ LoggedIn(s)
    /\ session' = receipt_activate_result(s, id)
    /\ UNCHANGED <<db, pc, max_brought_items, access, txn>>

\* ---------------------------------------------------------- item lifecycle
\* item_mode_change: the item moves to `to` when its state is one of from_;
\* otherwise _item_state_conflict raises Conflict.
item_mode_change_response(state, from_) == IF state \in from_ THEN RET_OK ELSE RET_CONFLICT
item_mode_change(its, i, to) == [its EXCEPT ![i].state = to]

\* Box.get_items, Box.get_item_count and the brought-items query of
\* item_checkin.
box_items(b) == {j \in Items : box_id(j) = b}
brought_count(i) == Cardinality({j \in Items : vendor_id(j) = vendor_id(i) /\ items[j].state = BROUGHT})
checkin_count(i) == IF box_id(i) # None THEN Cardinality(box_items(box_id(i))) ELSE 1

\* Fault model: every call hands the box the next number.
assign_box_number_again(number) == IF number = None THEN 1 ELSE number + 1

\* Box.assign_box_number: a box without a number gets one, a box that has a
\* number keeps it.
assign_box_number(number) == IF number = None THEN 1 ELSE number

\* The state item/checkin requires.
checkin_from == {ADVERTISED}

\* Fault model: a check-in that does not look at the state of the item.
item_checkin_response_any_state(i) ==
    IF max_brought_items # None /\ brought_count(i) + checkin_count(i) > max_brought_items
    THEN RET_CONFLICT
    ELSE IF box_id(i) # None THEN RET_ACCEPTED
    ELSE RET_OK

\* item/checkin
item_checkin_response(i) ==
    IF items[i].state \notin checkin_from THEN RET_CONFLICT
    ELSE IF max_brought_items # None /\ brought_count(i) + checkin_count(i) > max_brought_items
    THEN RET_CONFLICT
    ELSE IF box_id(i) # None THEN RET_ACCEPTED
    ELSE item_mode_change_response(items[i].state, {ADVERTISED})

item_checkin(s, i) ==
    /\ LoggedIn(s)
    /\ LET res == item_checkin_response(i)
       IN IF res = RET_ACCEPTED
          THEN /\ box_number' = assign_box_number(box_number)
               /\ UNCHANGED <<items, receipts, rows, extras, session, pc, max_brought_items, access, txn>>
          ELSE IF res = RET_OK
          THEN /\ items' = item_mode_change(items, i, BROUGHT)
               /\ UNCHANGED <<box_number, receipts, rows, extras, session, pc, max_brought_items, access, txn>>
          ELSE UNCHANGED vars

\* item/checkin as the two steps other requests can run between.  The first
\* locks the item row, tests its state and runs the count query, which locks
\* no row; the second, from box.assign_box_number() or item_mode_change on,
\* writes and commits.  A request for an item whose row is locked waits.
checking_in == <<"checkin 1", "checkin 2", "checkin 3", "checkin 4">>

item_checkin_query(s, i) ==
    /\ LoggedIn(s)
    /\ \A t \in Sessions : pc[t] # checking_in[i]
    /\ IF item_checkin_response(i) \in {RET_OK, RET_ACCEPTED}
       THEN /\ pc' = [pc EXCEPT ![s] = checking_in[i]]
            /\ UNCHANGED <<db, session, max_brought_items, access, txn>>
       ELSE UNCHANGED vars

item_checkin_save(s) ==
    /\ \E i \in Items :
          /\ pc[s] = checking_in[i]
          /\ IF box_id(i) # None
             THEN box_number' = assign_box_number(box_number) /\ items' = items
             ELSE items' = item_mode_change(items, i, BROUGHT) /\ box_number' = box_number
    /\ pc' = [pc EXCEPT ![s] = "idle"]
    /\ UNCHANGED <<receipts, rows, extras, session, max_brought_items, access, txn>>

\* States from which item/checkout returns a single item.
checkout_from == {BROUGHT, ADVERTISED}

\* Fault model: a box check-out that returns the items of the box in every
\* state.
checkout_box_items_any_state(its, b) ==
    [j \in Items |-> IF j \in box_items(b) THEN [its[j] EXCEPT !.state = RETURNED] ELSE its[j]]

\* The box branch of item/checkout: items.update(state=RETURNED) on the
\* Brought items of the box.
checkout_box_items(its, b) ==
    [j \in Items |-> IF j \in box_items(b) /\ its[j].state = BROUGHT
                     THEN [its[j] EXCEPT !.state = RETURNED] ELSE its[j]]

\* The counts the box branch reports, from the query that runs after the
\* update.
checkout_box_info(its, b) ==
    [item_count |-> Cardinality(box_items(b)),
     returnable_count |-> Cardinality({j \in box_items(b) : its[j].state = BROUGHT}),
     returned_count |-> Cardinality({j \in box_items(b) : its[j].state = RETURNED})]

\* Fault model: a check-out that ignores the owner guard.
item_checkout_response_unguarded(i, vendor) ==
    IF box_id(i) # None
    THEN (IF representative_item(box_id(i)) # i THEN RET_CONFLICT ELSE RET_OK)
    ELSE IF items[i].state \in {BROUGHT, ADVERTISED} THEN RET_OK ELSE RET_CONFLICT

\* item/checkout; vendor is the optional owner guard (None = not given).
item_checkout_response(i, vendor) ==
    IF vendor # None /\ vendor_id(i) # vendor THEN RET_LOCKED
    ELSE IF box_id(i) # None
    THEN (IF representative_item(box_id(i)) # i THEN RET_CONFLICT ELSE RET_OK)
    ELSE item_mode_change_response(items[i].state, checkout_from)

item_checkout_fn(s, i, vendor) ==
    /\ LoggedIn(s)
    /\ IF item_checkout_response(i, vendor) = RET_OK
       THEN /\ items' = IF box_id(i) # None
                        THEN checkout_box_items(items, box_id(i))
                        ELSE item_mode_change(items, i, RETURNED)
            /\ UNCHANGED <<box_number, receipts, rows, extras, session, pc, max_brought_items, access>>
       ELSE UNCHANGED store

item_checkout(s, i, vendor) == item_checkout_fn(s, i, vendor) /\ UNCHANGED txn

\* States from which item/reserve stages an item.
reserve_from == {ADVERTISED, BROUGHT, MISSING}

\* Fault model: a reserve that does not look at the state of the item.
item_reserve_response_any_state(s, i) ==
    IF box_id(i) # None THEN RET_CONFLICT
    ELSE IF session[s].receipt = None THEN RET_BAD_REQUEST
    ELSE RET_OK

\* item/reserve: the checks in the handler's order.
item_reserve_response(s, i) ==
    IF box_id(i) # None THEN RET_CONFLICT
    ELSE IF session[s].receipt = None THEN RET_BAD_REQUEST
    ELSE IF raise_if_item_not_available(items[i].state) # NO_ERROR
    THEN raise_if_item_not_available(items[i].state)
    ELSE IF items[i].state \in reserve_from THEN RET_OK
    ELSE RET_CONFLICT

\* Fault model: a reserve that saves the receipt without recomputing its
\* total.
reserve_total_stale(rid, its, rws) == receipts[rid].total

\* The total a successful item/reserve stores on the receipt.
reserve_total(rid, its, rws) == calculate_total(rid, its, rws, extras)

item_reserve_fn(s, i) ==
    /\ LoggedIn(s)
    /\ IF item_reserve_response(s, i) = RET_OK
       THEN LET rid == session[s].receipt
                its == [items EXCEPT ![i].state = STAGED]
                rws == create_row(rows, rid, i, ADD)
            IN /\ RowCount(rows) < MaxRows
               /\ items' = its
               /\ rows' = rws
               /\ receipts' = [receipts EXCEPT ![rid].total = reserve_total(rid, its, rws)]
               /\ UNCHANGED <<box_number, extras, session, pc, max_brought_items, access>>
       ELSE UNCHANGED store

item_reserve(s, i) == item_reserve_fn(s, i) /\ UNCHANGED txn

\* Fault model: a release that does not look for the ADD row.
item_release_response_any_row(s, i) ==
    IF session[s].receipt = None THEN RET_BAD_REQUEST ELSE RET_OK

\* item/release
item_release_response(s, i) ==
    IF session[s].receipt = None THEN RET_BAD_REQUEST
    ELSE IF rows[<<session[s].receipt, i, ADD>>] = 0 THEN RET_CONFLICT
    ELSE RET_OK

item_release_fn(s, i) ==
    /\ LoggedIn(s)
    /\ IF item_release_response(s, i) = RET_OK
       THEN LET d == remove_item_from_receipt(Database, i, session[s].receipt)
            IN /\ RowCount(rows) < MaxRows
               /\ items' = d.items
               /\ rows' = d.rows
               /\ receipts' = d.receipts
               /\ UNCHANGED <<box_number, extras, session, pc, max_brought_items, access>>
       ELSE UNCHANGED store

item_release(s, i) == item_release_fn(s, i) /\ UNCHANGED txn

\* Fault model: the price of an item staged on a receipt may be changed too.
price_editable_states_staged == {ADVERTISED, BROUGHT, STAGED}

\* item/edit: states in which the price may change, states an item may be
\* reverted to, and the states it may be reverted from.
price_editable_states == {ADVERTISED, BROUGHT}
unsold_states == {ADVERTISED, BROUGHT, MISSING, RETURNED}
\* Fault model: the test for a sold item forgets the Staged state.
edit_revertable_staged(state) == state \notin {ADVERTISED, BROUGHT, MISSING, RETURNED}

edit_revertable(state) == state \notin unsold_states /\ state # STAGED

\* Receipts that hold an ADD row of the item (the receipt_ids query).
receipt_ids(rws, i) == {r \in 1..MaxReceipts : rws[<<r, i, ADD>>] > 0}

item_edit_response(i, price, state) ==
    IF box_id(i) # None THEN RET_CONFLICT
    ELSE IF /\ price # items[i].price
            /\ items[i].state \notin price_editable_states
            /\ state \notin price_editable_states
    THEN RET_BAD_REQUEST
    ELSE IF items[i].state # state /\ ~(edit_revertable(items[i].state) /\ state \in unsold_states)
    THEN RET_BAD_REQUEST
    ELSE RET_OK

\* The database item/edit leaves behind: the item's rows are taken off every
\* receipt that holds it when its state is reverted, then state and price are
\* saved; a refused edit leaves the database as it was.
item_edit_result(i, price, state) ==
    IF item_edit_response(i, price, state) = RET_OK
    THEN LET rids == IF items[i].state # state THEN receipt_ids(rows, i) ELSE {}
             d == remove_from_receipts(Database, i, rids)
         IN [d EXCEPT !.items = [d.items EXCEPT ![i].state = state, ![i].price = price]]
    ELSE Database

\* item/edit.  A call that asks for the state and the price the item already
\* has writes nothing.
item_edit(s, i, price, state) ==
    /\ LoggedIn(s)
    /\ IF item_edit_response(i, price, state) = RET_OK
          /\ (price # items[i].price \/ state # items[i].state)
       THEN LET d == item_edit_result(i, price, state)
            IN /\ RowCount(d.rows) <= MaxRows
               /\ items' = d.items
               /\ rows' = d.rows
               /\ receipts' = d.receipts
               /\ UNCHANGED <<box_number, extras, session, pc, max_brought_items, access, txn>>
       ELSE UNCHANGED vars

\* ------------------------------------------------------- receipt finish/abort
\* Fault model: a lookup that does not compare the id with the session.
get_active_receipt_any_id(s, id, allowed_states) ==
    IF receipts[id].status \notin allowed_states THEN RET_CONFLICT
    ELSE NO_ERROR

\* _get_active_receipt: the error it raises, or NO_ERROR.
get_active_receipt(s, id, allowed_states) ==
    IF session[s].receipt # None /\ session[s].receipt # id THEN RET_CONFLICT
    ELSE IF receipts[id].status \notin allowed_states THEN RET_CONFLICT
    ELSE NO_ERROR

\* receipt/finish.  `del request.session["receipt"]` raises KeyError when the
\* session holds no reference; the atomic block then rolls everything back.
receipt_finish_response(s, id) ==
    IF get_active_receipt(s, id, {PENDING}) # NO_ERROR THEN get_active_receipt(s, id, {PENDING})
    ELSE IF session[s].receipt = None THEN RET_SERVER_ERROR
    ELSE RET_OK

\* Fault model: a finish that selects the items of every row of the receipt.
finish_items_any_row(rws, rid) ==
    {i \in Items : \E a \in Actions : rws[<<rid, i, a>>] > 0}

\* The items receipt/finish updates, and the state it gives them.
finish_items(rws, rid) == added_items(rws, rid)
finish_state == SOLD

receipt_finish_atomic == TRUE

\* The writes of receipt/finish, up to `del request.session["receipt"]`.
receipt_finish_writes(id) ==
    [Database EXCEPT !.receipts = [receipts EXCEPT ![id].status = FINISHED, ![id].ended = TRUE],
                     !.items = [j \in Items |-> IF j \in finish_items(rows, id)
                                                THEN [items[j] EXCEPT !.state = finish_state]
                                                ELSE items[j]]]

\* The database receipt/finish leaves behind.
receipt_finish_result(s, id) ==
    IF get_active_receipt(s, id, {PENDING}) # NO_ERROR THEN Database
    ELSE IF receipt_finish_response(s, id) # RET_OK
    THEN transaction_atomic(receipt_finish_atomic, Database, receipt_finish_writes(id))
    ELSE receipt_finish_writes(id)

receipt_finish_fn(s, id) ==
    /\ LoggedIn(s)
    /\ id \in Idx(receipts) /\ receipts[id].type = TYPE_PURCHASE
    /\ LET d == receipt_finish_result(s, id)
       IN /\ receipts' = d.receipts
          /\ items' = d.items
          /\ session' = IF receipt_finish_response(s, id) = RET_OK
                        THEN [session EXCEPT ![s].receipt = None] ELSE session
          /\ UNCHANGED <<box_number, rows, extras, pc, max_brought_items, access>>

receipt_finish(s, id) == receipt_finish_fn(s, id) /\ UNCHANGED txn

\* receipt/abort
receipt_abort_response(s, id) ==
    IF get_active_receipt(s, id, {PENDING, SUSPENDED}) # NO_ERROR
    THEN get_active_receipt(s, id, {PENDING, SUSPENDED})
    ELSE IF session[s].receipt = None THEN RET_SERVER_ERROR
    ELSE RET_OK

\* Fault model: the first pass runs after the reclassification and finds no
\* ADD row.
abort_remove_rows_late(rws, rid) == rws

\* The first pass of receipt/abort over the ADD rows of the receipt: one
\* REMOVE row per ADD row.
abort_remove_rows(rws, rid) ==
    [k \in RowKeys |-> IF k[1] = rid /\ k[3] = REMOVE
                       THEN rws[k] + rws[<<rid, k[2], ADD>>] ELSE rws[k]]

\* The first pass of receipt/abort: the items of the ADD rows go to BROUGHT.
abort_revert_items(its, rws, rid) ==
    [j \in Items |-> IF j \in added_items(rws, rid) /\ its[j].state # BROUGHT
                     THEN [its[j] EXCEPT !.state = BROUGHT] ELSE its[j]]

\* The final pass of receipt/abort: added_items.update(action=REMOVED_LATER).
abort_reclassify(rws, rid) ==
    [k \in RowKeys |-> IF k[1] = rid /\ k[3] = ADD THEN 0
                       ELSE IF k[1] = rid /\ k[3] = REMOVED_LATER
                       THEN rws[k] + rws[<<rid, k[2], ADD>>]
                       ELSE rws[k]]

receipt_abort_atomic == TRUE

\* The writes of receipt/abort, up to `del request.session["receipt"]`.
receipt_abort_writes(id) ==
    LET its == abort_revert_items(items, rows, id)
        rws == abort_reclassify(abort_remove_rows(rows, id), id)
    IN [Database EXCEPT !.items = its, !.rows = rws,
                        !.receipts = [receipts EXCEPT ![id].status = ABORTED, ![id].ended = TRUE,
                                                      ![id].total = calculate_total(id, its, rws, extras)]]

\* The database receipt/abort leaves behind.
receipt_abort_result(s, id) ==
    IF get_active_receipt(s, id, {PENDING, SUSPENDED}) # NO_ERROR THEN Database
    ELSE IF receipt_abort_response(s, id) # RET_OK
    THEN transaction_atomic(receipt_abort_atomic, Database, receipt_abort_writes(id))
    ELSE receipt_abort_writes(id)

receipt_abort_fn(s, id) ==
    /\ LoggedIn(s)
    /\ id \in Idx(receipts) /\ receipts[id].type = TYPE_PURCHASE
    /\ LET d == receipt_abort_result(s, id)
       IN /\ RowCount(d.rows) <= MaxRows
          /\ items' = d.items
          /\ rows' = d.rows
          /\ receipts' = d.receipts
          /\ session' = IF receipt_abort_response(s, id) = RET_OK
                        THEN [session EXCEPT ![s].receipt = None] ELSE session
          /\ UNCHANGED <<box_number, extras, pc, max_brought_items, access>>

receipt_abort(s, id) == receipt_abort_fn(s, id) /\ UNCHANGED txn

\* ------------------------------------------------------------ compensation
\* Provision(...): the outcomes the provision calculator can hand to
\* item/compensate/end (has_provision, provision, provision_fix).
ProvisionOutcomes ==
    {[has_provision |-> FALSE, provision |-> 0, provision_fix |-> 0],
     [has_provision |-> TRUE, provision |-> 0 - 1, provision_fix |-> 0]}

\* The outcomes with a correction term as well: a provision with a non-zero
\* provision_fix, and a correction without a provision.
ProvisionFixOutcomes ==
    ProvisionOutcomes \cup {[has_provision |-> TRUE, provision |-> 0 - 1, provision_fix |-> 1],
                            [has_provision |-> FALSE, provision |-> 0, provision_fix |-> 1]}

\* item/compensate/start
\* Fault model: a compensation is started over the one the session has open.
item_compensate_start_response_reopen(s, vendor) ==
    IF vendor \notin Vendors THEN RET_BAD_REQUEST ELSE RET_OK

item_compensate_start_response(s, vendor) ==
    IF session[s].compensation # None THEN RET_CONFLICT
    ELSE IF vendor \notin Vendors THEN RET_BAD_REQUEST
    ELSE RET_OK

item_compensate_start(s, vendor) ==
    /\ LoggedIn(s)
    /\ IF item_compensate_start_response(s, vendor) = RET_OK
       THEN /\ Len(receipts) < MaxReceipts
            /\ receipts' = Append(receipts, [clerk |-> session[s].clerk, type |-> TYPE_COMPENSATION,
                                             status |-> PENDING, total |-> 0, ended |-> FALSE,
                                             vendor |-> vendor])
            /\ session' = [session EXCEPT ![s].compensation = Len(receipts) + 1]
            /\ UNCHANGED <<items, box_number, rows, extras, pc, max_brought_items, access, txn>>
       ELSE UNCHANGED vars

\* Fault model: an item already compensated is compensated again.
compensate_from_compensated == {SOLD, COMPENSATED}

\* item/compensate
compensate_from == {SOLD}

item_compensate_response(s, i) ==
    IF session[s].compensation = None THEN RET_CONFLICT
    ELSE IF vendor_id(i) # receipts[session[s].compensation].vendor THEN RET_NOT_FOUND
    ELSE item_mode_change_response(items[i].state, compensate_from)

item_compensate_fn(s, i) ==
    /\ LoggedIn(s)
    /\ IF item_compensate_response(s, i) = RET_OK
       THEN LET rid == session[s].compensation
                its == item_mode_change(items, i, COMPENSATED)
                rws == create_row(rows, rid, i, ADD)
            IN /\ RowCount(rows) < MaxRows
               /\ items' = its
               /\ rows' = rws
               /\ receipts' = [receipts EXCEPT ![rid].total = calculate_total(rid, its, rws, extras)]
               /\ UNCHANGED <<box_number, extras, session, pc, max_brought_items, access>>
       ELSE UNCHANGED store

item_compensate(s, i) == item_compensate_fn(s, i) /\ UNCHANGED txn

\* item/compensate/end
item_compensate_end_response(s) ==
    IF session[s].compensation = None THEN RET_CONFLICT ELSE RET_OK

\* Fault model: the provision_fix row is stored whatever its value.
provision_rows_any_fix(rid, p) ==
    IF p.has_provision
    THEN <<[receipt |-> rid, type |-> TYPE_PROVISION, value |-> p.provision],
           [receipt |-> rid, type |-> TYPE_PROVISION_FIX, value |-> p.provision_fix]>>
    ELSE <<>>

\* The ReceiptExtraRow rows item/compensate/end creates.
provision_rows(rid, p) ==
    IF p.has_provision
    THEN <<[receipt |-> rid, type |-> TYPE_PROVISION, value |-> p.provision]>>
         \o (IF p.provision_fix # 0
             THEN <<[receipt |-> rid, type |-> TYPE_PROVISION_FIX, value |-> p.provision_fix]>>
             ELSE <<>>)
    ELSE <<>>

item_compensate_end(s, p) ==
    /\ LoggedIn(s)
    /\ IF item_compensate_end_response(s) = RET_OK
       THEN LET rid == session[s].compensation
                exs == extras \o provision_rows(rid, p)
            IN /\ Len(extras) < MaxExtras \/ exs = extras
               /\ extras' = exs
               /\ receipts' = [receipts EXCEPT ![rid].status = FINISHED, ![rid].ended = TRUE,
                                               ![rid].total = calculate_total(rid, items, rows, exs)]
               /\ session' = [session EXCEPT ![s].compensation = None]
               /\ UNCHANGED <<items, box_number, rows, pc, max_brought_items, access, txn>>
       ELSE UNCHANGED vars

\* ------------------------------------------------- temporary access permits
\* vendor/token/create: every permit of the vendor is logged and invalidated,
\* then up to MaxRetries short codes are drawn; a draw that collides with the
\* code of an existing permit raises IntegrityError and the next one is tried;
\* the first free code gives the new permit and its log row, and when every
\* draw collides the handler raises Conflict.
PermitDatabase == [permits |-> permits, permit_log |-> permit_log]
old_permits(vendor) == SelectSeq([p \in Idx(permits) |-> p], LAMBDA p : permits[p].vendor = vendor)
used_codes == {permits[p].short_code : p \in Idx(permits)}
vendor_token_create_atomic == TRUE

vendor_token_create_response(draws) ==
    IF \E k \in 1..MaxRetries : draws[k] \notin used_codes THEN RET_OK ELSE RET_CONFLICT

\* The writes of the handler before the loop.
invalidate_permits(vendor) ==
    [permits |-> [p \in Idx(permits) |->
                     IF permits[p].vendor = vendor
                     THEN [permits[p] EXCEPT !.state = STATE_INVALIDATED] ELSE permits[p]],
     permit_log |-> permit_log \o [k \in Idx(old_permits(vendor)) |->
                                     [permit |-> old_permits(vendor)[k], action |-> ACTION_INVALIDATE]]]

\* The writes of the handler up to the end of the loop.
vendor_token_create_writes(vendor, draws) ==
    LET d == invalidate_permits(vendor)
    IN IF vendor_token_create_response(draws) = RET_OK
       THEN LET k == CHOOSE k \in 1..MaxRetries :
                        /\ draws[k] \notin used_codes
                        /\ \A j \in 1..(k - 1) : draws[j] \in used_codes
            IN [permits |-> Append(d.permits, [vendor |-> vendor, state |-> STATE_UNUSED,
                                               short_code |-> draws[k]]),
                permit_log |-> Append(d.permit_log, [permit |-> Len(permits) + 1,
                                                     action |-> ACTION_ADD])]
       ELSE d

\* The permit tables vendor/token/create leaves behind.
vendor_token_create_result(vendor, draws) ==
    IF vendor_token_create_response(draws) # RET_OK
    THEN transaction_atomic(vendor_token_create_atomic, PermitDatabase,
                            vendor_token_create_writes(vendor, draws))
    ELSE vendor_token_create_writes(vendor, draws)

vendor_token_create(s, vendor, draws) ==
    /\ LoggedIn(s)
    /\ LET d == vendor_token_create_result(vendor, draws)
       IN /\ permits' = d.permits
          /\ permit_log' = d.permit_log
    /\ UNCHANGED <<db, session, pc, max_brought_items, txn>>

\* --------------------------------------------------------------------- Next
\* Two counters selling one single item concurrently.  Clerk 1 works at both
\* counters, clerk 2 at the second one only; vendors are compensated at the
\* first counter; an edit changes the state of the item only.
CounterClerks(s) == {c \in Clerks : c <= s}
CounterItems == {1}
CompensationDesks == {1}
\* Vendors whose items can be sold, and so compensated.
CompensatedVendors == {vendor_id(i) : i \in SingleItems}

Next ==
    \/ \E s \in Sessions : \E c \in CounterClerks(s) : clerk_login(s, c)
    \/ \E s \in Sessions : clerk_logout(s)
    \/ Len(receipts) < MaxOpened /\ \E s \in Sessions : receipt_start(s)
    \/ Len(receipts) < MaxOpened /\ \E s \in Sessions : receipt_start_save(s)
    \/ \E s \in Sessions, id \in 1..MaxReceipts : receipt_activate(s, id)
    \/ \E s \in Sessions, i \in CounterItems : item_reserve(s, i)
    \/ \E s \in Sessions, i \in CounterItems : item_release(s, i)
    \/ \E s \in Sessions, i \in CounterItems, state \in ItemStates : item_edit(s, i, items[i].price, state)
    \/ \E s \in Sessions, id \in 1..MaxReceipts : receipt_finish(s, id)
    \/ \E s \in Sessions, id \in 1..MaxReceipts : receipt_abort(s, id)
    \/ Len(receipts) < MaxOpened /\ \E s \in CompensationDesks, v \in CompensatedVendors : item_compensate_start(s, v)
    \/ \E s \in CompensationDesks, i \in CounterItems : item_compensate(s, i)
    \/ \E s \in CompensationDesks, p \in ProvisionOutcomes : item_compensate_end(s, p)

Spec == Init /\ [][Next]_vars

\* One counter working on the single items, with price edits.
SoloSessions == {1}

NextItems ==
    \/ \E s \in SoloSessions : \E c \in CounterClerks(s) : clerk_login(s, c)
    \/ \E s \in SoloSessions : clerk_logout(s)
    \/ Len(receipts) < MaxOpened /\ \E s \in SoloSessions : receipt_start(s)
    \/ Len(receipts) < MaxOpened /\ \E s \in SoloSessions : receipt_start_save(s)
    \/ \E s \in SoloSessions, i \in SingleItems : item_checkin(s, i)
    \/ \E s \in SoloSessions, i \in SingleItems, v \in Vendors \cup {None} : item_checkout(s, i, v)
    \/ \E s \in SoloSessions, i \in SingleItems : item_reserve(s, i)
    \/ \E s \in SoloSessions, i \in SingleItems : item_release(s, i)
    \/ \E s \in SoloSessions, i \in SingleItems, price \in Prices, state \in ItemStates : item_edit(s, i, price, state)
    \/ \E s \in SoloSessions, id \in 1..MaxReceipts : receipt_finish(s, id)
    \/ \E s \in SoloSessions, id \in 1..MaxReceipts : receipt_abort(s, id)
    \/ Len(receipts) < MaxOpened /\ \E s \in SoloSessions, v \in CompensatedVendors : item_compensate_start(s, v)
    \/ \E s \in SoloSessions, i \in SingleItems : item_compensate(s, i)
    \/ \E s \in SoloSessions, p \in ProvisionOutcomes : item_compensate_end(s, p)

SpecItems == Init /\ [][NextItems]_vars

\* One counter checking items in and out, with and without a cap on the
\* brought items of a vendor.
CapValues == {None, 1, 2}

\* Items of the box have been checked in and sold through the box API
\* (boxes_api) before; the single items are still advertised.
BoxStates == {ADVERTISED, BROUGHT, SOLD}

InitCheckin ==
    /\ items \in [Items -> [state : ItemStates, price : {1}, abandoned : {FALSE}, lost_property : {FALSE}]]
    /\ \A i \in Items : items[i].state \in (IF box_id(i) # None THEN BoxStates ELSE {ADVERTISED})
    /\ box_number = None
    /\ receipts = <<>>
    /\ rows = [k \in RowKeys |-> 0]
    /\ extras = <<>>
    /\ session = [s \in Sessions |-> [clerk |-> None, receipt |-> None, compensation |-> None]]
    /\ pc = [s \in Sessions |-> "idle"]
    /\ txn = [s \in Sessions |-> NoTxn]
    /\ max_brought_items \in CapValues
    /\ permits = <<>>
    /\ permit_log = <<>>

NextCheckin ==
    \/ \E s \in SoloSessions : \E c \in CounterClerks(s) : clerk_login(s, c)
    \/ \E s \in SoloSessions : clerk_logout(s)
    \/ \E s \in SoloSessions, i \in Items : item_checkin(s, i)
    \/ \E s \in SoloSessions, i \in Items, v \in Vendors \cup {None} : item_checkout(s, i, v)
    \/ \E s \in SoloSessions, i \in Items, price \in Prices, state \in ItemStates : item_edit(s, i, price, state)

SpecCheckin == InitCheckin /\ [][NextCheckin]_vars

\* Two compensation desks after a sale: both single items were sold on one
\* finished purchase receipt; vendors are compensated at either desk and an
\* edit may put a compensated item back to Brought.
SoldPrices == [i \in Items |-> IF i = 2 THEN 2 ELSE 1]
InitCompensate ==
    /\ items = [i \in Items |-> [state |-> IF i \in SingleItems THEN SOLD ELSE ADVERTISED,
                                 price |-> SoldPrices[i],
                                 abandoned |-> FALSE, lost_property |-> FALSE]]
    /\ box_number = None
    /\ receipts = <<[clerk |-> 1, type |-> TYPE_PURCHASE, status |-> FINISHED,
                     total |-> SoldPrices[1] + SoldPrices[2], ended |-> TRUE, vendor |-> None]>>
    /\ rows = [k \in RowKeys |-> IF k[1] = 1 /\ k[2] \in SingleItems /\ k[3] = ADD THEN 1 ELSE 0]
    /\ extras = <<>>
    /\ session = [s \in Sessions |-> [clerk |-> None, receipt |-> None, compensation |-> None]]
    /\ pc = [s \in Sessions |-> "idle"]
    /\ txn = [s \in Sessions |-> NoTxn]
    /\ max_brought_items = None
    /\ permits = <<>>
    /\ permit_log = <<>>

NextCompensate ==
    \/ \E s \in Sessions : \E c \in CounterClerks(s) : clerk_login(s, c)
    \/ \E s \in Sessions : clerk_logout(s)
    \/ \E s \in Sessions : counter_validate(s)
    \/ \E s \in Sessions, v \in Vendors \cup {UnknownVendor} : item_compensate_start(s, v)
    \/ \E s \in Sessions, i \in Items : item_compensate(s, i)
    \/ \E s \in Sessions, p \in ProvisionFixOutcomes : item_compensate_end(s, p)
    \/ \E s \in Sessions, i \in SingleItems : item_edit(s, i, items[i].price, BROUGHT)

SpecCompensate == InitCompensate /\ [][NextCompensate]_vars

\* One counter where requests fail after their first writes: a clerk leaves a
\* pending receipt behind and another clerk, whose session refers to no
\* receipt, finishes or aborts it by id; vendors get temporary access permits
\* until the short codes run out.
NextAtomic ==
    \/ \E s \in SoloSessions, c \in Clerks : clerk_login(s, c)
    \/ \E s \in SoloSessions : clerk_logout(s)
    \/ Len(receipts) < MaxOpened /\ \E s \in SoloSessions : receipt_start(s)
    \/ Len(receipts) < MaxOpened /\ \E s \in SoloSessions : receipt_start_save(s)
    \/ \E s \in SoloSessions, i \in CounterItems : item_reserve(s, i)
    \/ \E s \in SoloSessions, id \in 1..MaxReceipts : receipt_finish(s, id)
    \/ \E s \in SoloSessions, id \in 1..MaxReceipts : receipt_abort(s, id)
    \/ \E s \in SoloSessions, v \in Vendors, draws \in [1..MaxRetries -> Codes] :
          vendor_token_create(s, v, draws)

SpecAtomic == Init /\ [][NextAtomic]_vars

\* Two counters checking in the items of an event with a cap on brought items.
Caps == {1, 2}
InitCap ==
    /\ items = [i \in Items |-> [state |-> ADVERTISED, price |-> 1, abandoned |-> FALSE, lost_property |-> FALSE]]
    /\ box_number = None
    /\ receipts = <<>>
    /\ rows = [k \in RowKeys |-> 0]
    /\ extras = <<>>
    /\ session = [s \in Sessions |-> [clerk |-> None, receipt |-> None, compensation |-> None]]
    /\ pc = [s \in Sessions |-> "idle"]
    /\ txn = [s \in Sessions |-> NoTxn]
    /\ max_brought_items \in Caps
    /\ permits = <<>>
    /\ permit_log = <<>>

NextCap ==
    \/ \E s \in Sessions : \E c \in CounterClerks(s) : clerk_login(s, c)
    \/ \E s \in Sessions : clerk_logout(s)
    \/ \E s \in Sessions, i \in Items : item_checkin_query(s, i)
    \/ \E s \in Sessions : item_checkin_save(s)

SpecCap == InitCap /\ [][NextCap]_vars

\* ------------------------------------------------------------------ claims
PurchaseReceipts == {r \in Idx(receipts) : receipts[r].type = TYPE_PURCHASE}
ExtrasTotal(rid) == LET v(e) == IF e.receipt = rid THEN e.value ELSE 0 IN SumSeq(v, extras)

\* C1: every item has an active ADD row on at most one purchase receipt, and
\* at most one such row on it (so two reserve calls for one item never both
\* succeed).
C1_NeverSoldTwice ==
    \A i \in Items :
        /\ Cardinality({r \in PurchaseReceipts : rows[<<r, i, ADD>>] > 0}) <= 1
        /\ \A r \in PurchaseReceipts : rows[<<r, i, ADD>>] <= 1

\* An item is staged on one pending receipt while another session works on a
\* different pending receipt.
C1_Witness ==
    \E i \in Items, r1 \in PurchaseReceipts, r2 \in PurchaseReceipts, s \in Sessions :
        /\ r1 # r2
        /\ items[i].state = STAGED /\ rows[<<r1, i, ADD>>] = 1
        /\ receipts[r1].status = PENDING /\ receipts[r2].status = PENDING
        /\ LoggedIn(s) /\ session[s].receipt = r2

\* C2: an item becomes Sold only from Staged and Compensated only from Sold.
C2_SoldAfterStaged ==
    [][vars' # vars => \A i \in Items :
          /\ (items'[i].state = SOLD /\ items[i].state # SOLD) => items[i].state = STAGED
          /\ (items'[i].state = COMPENSATED /\ items[i].state # COMPENSATED) => items[i].state = SOLD]_vars

\* An item has been sold and compensated, another is sold.
C2_Witness ==
    \E i \in Items, j \in Items : items[i].state = COMPENSATED /\ items[j].state = SOLD

\* C3: every change of an item's state is a listed transition made by the
\* listed operation.
C3_TransitionTable ==
    [][vars' # vars => \A i \in Items :
          \/ items'[i].state = items[i].state
          \/ /\ items[i].state = ADVERTISED /\ items'[i].state = BROUGHT
             /\ \E s \in Sessions : item_checkin(s, i)
          \/ /\ items[i].state = BROUGHT /\ items'[i].state = RETURNED
             /\ \E s \in Sessions, j \in Items, v \in Vendors \cup {None} : item_checkout(s, j, v)
          \/ /\ items[i].state \in {BROUGHT, ADVERTISED, MISSING} /\ items'[i].state = STAGED
             /\ \E s \in Sessions : item_reserve(s, i)
          \/ /\ items[i].state = STAGED /\ items'[i].state = BROUGHT
             /\ \/ \E s \in Sessions : item_release(s, i)
                \/ \E s \in Sessions, id \in 1..MaxReceipts : receipt_abort(s, id)
          \/ /\ items[i].state = STAGED /\ items'[i].state = SOLD
             /\ \E s \in Sessions, id \in 1..MaxReceipts : receipt_finish(s, id)
          \/ /\ items[i].state = SOLD /\ items'[i].state = COMPENSATED
             /\ \E s \in Sessions : item_compensate(s, i)
          \/ /\ items[i].state \in {SOLD, COMPENSATED, RETURNED}
             /\ items'[i].state \in {ADVERTISED, BROUGHT, MISSING, RETURNED}
             /\ \E s \in Sessions, price \in Prices, state \in ItemStates : item_edit(s, i, price, state)]_vars

\* C4: the stored total of every pending receipt is the sum of the current
\* prices of the items with an ADD row on it plus its extra rows.
C4_TotalConsistent ==
    \A r \in Idx(receipts) :
        receipts[r].status = PENDING =>
            receipts[r].total = calculate_total(r, items, rows, extras)

\* A pending receipt holds two items, one of them with an edited price.
C4_Witness ==
    \E r \in PurchaseReceipts, i \in Items, j \in Items :
        /\ receipts[r].status = PENDING
        /\ rows[<<r, i, ADD>>] = 1 /\ rows[<<r, j, ADD>>] = 1
        /\ items[i].price = 1 /\ items[j].price = 2
        /\ receipts[r].total = 3

\* C5: a successful abort of a receipt with N ADD rows sets the N items to
\* Brought, adds N REMOVE rows, turns the N ADD rows into REMOVED_LATER rows,
\* sets the status to Aborted and stores the sum of the extra rows as total.
C5_AbortRestores ==
    [][vars' # vars => \A s \in Sessions, id \in Idx(receipts) :
          (receipt_abort_response(s, id) = RET_OK /\ receipt_abort(s, id)) =>
              LET N == ActionCount(rows, id, ADD)
              IN /\ \A i \in added_items(rows, id) : items'[i].state = BROUGHT
                 /\ \A i \in Items \ added_items(rows, id) : items'[i] = items[i]
                 /\ ActionCount(rows', id, REMOVE) = ActionCount(rows, id, REMOVE) + N
                 /\ ActionCount(rows', id, REMOVED_LATER) = ActionCount(rows, id, REMOVED_LATER) + N
                 /\ ActionCount(rows', id, ADD) = 0
                 /\ receipts'[id].status = ABORTED
                 /\ receipts'[id].total = ExtrasTotal(id)]_vars

\* A receipt with two reserved items has been aborted.
C5_Witness ==
    \E r \in PurchaseReceipts :
        /\ receipts[r].status = ABORTED /\ receipts[r].total = 0
        /\ ActionCount(rows, r, REMOVE) = 2 /\ ActionCount(rows, r, REMOVED_LATER) = 2
        /\ ActionCount(rows, r, ADD) = 0
        /\ items[1].state = BROUGHT /\ items[2].state = BROUGHT

\* C6: a clerk never has two pending purchase receipts.
C6_OnePendingPerClerk ==
    \A c \in Clerks : Cardinality(active_receipts(c)) <= 1

\* C7 as stated: for a logged-in session, reserve answers Locked for every
\* Staged item and Conflict for every Sold, Compensated or Returned item.
C7_ReserveRejectsAlways ==
    \A s \in Sessions, i \in SingleItems :
        LoggedIn(s) =>
            /\ items[i].state = STAGED => item_reserve_response(s, i) = RET_LOCKED
            /\ items[i].state \in {SOLD, COMPENSATED, RETURNED}
                   => item_reserve_response(s, i) = RET_CONFLICT

\* C7, amended: when the session references a receipt, reserve of a single
\* item answers Locked for a Staged item and Conflict for a Sold, Compensated
\* or Returned item, and such a call changes no item, no receipt row and no
\* receipt.
C7_ReserveRejects ==
    [][vars' # vars => \A s \in Sessions, i \in SingleItems :
          (/\ LoggedIn(s) /\ session[s].receipt # None
           /\ items[i].state \in {STAGED, SOLD, COMPENSATED, RETURNED}) =>
              /\ item_reserve_response(s, i) =
                     (IF items[i].state = STAGED THEN RET_LOCKED ELSE RET_CONFLICT)
              /\ item_reserve(s, i) => UNCHANGED <<items, rows, receipts>>]_vars

\* A session that references a receipt faces a Compensated item.
C7_Witness ==
    \E s \in Sessions, i \in SingleItems :
        /\ LoggedIn(s) /\ session[s].receipt # None
        /\ items[i].state = COMPENSATED
        /\ item_reserve_response(s, i) = RET_CONFLICT

\* C8: a reserve call answers Conflict for a box item and BadRequest for a
\* single item when the session references no receipt, and succeeds only for
\* a single item in Advertised, Brought or Missing; a successful call moves
\* exactly that item to Staged, adds exactly one ADD row for it to the
\* session's receipt and raises that receipt's total by the item's price; a
\* failing call changes nothing.
C8_ReserveEffects ==
    [][vars' # vars => \A s \in Sessions, i \in Items :
          LoggedIn(s) =>
              /\ box_id(i) # None => item_reserve_response(s, i) = RET_CONFLICT
              /\ (box_id(i) = None /\ session[s].receipt = None)
                     => item_reserve_response(s, i) = RET_BAD_REQUEST
              /\ IF item_reserve_response(s, i) = RET_OK
                 THEN /\ box_id(i) = None
                      /\ items[i].state \in {ADVERTISED, BROUGHT, MISSING}
                      /\ item_reserve(s, i) =>
                             LET rid == session[s].receipt
                             IN /\ items' = [items EXCEPT ![i].state = STAGED]
                                /\ rows' = [rows EXCEPT ![<<rid, i, ADD>>] = @ + 1]
                                /\ receipts' = [receipts EXCEPT ![rid].total = @ + items[i].price]
                                /\ UNCHANGED <<box_number, extras, session>>
                 ELSE item_reserve(s, i) => UNCHANGED vars]_vars

\* An item of price 2 has been reserved onto a receipt that already held an
\* item of price 1, while the box item stays out of every receipt.
C8_Witness ==
    \E s \in Sessions, i \in SingleItems, j \in SingleItems :
        /\ LoggedIn(s) /\ session[s].receipt # None
        /\ items[i].state = STAGED /\ items[i].price = 1
        /\ items[j].state = STAGED /\ items[j].price = 2
        /\ rows[<<session[s].receipt, i, ADD>>] = 1 /\ rows[<<session[s].receipt, j, ADD>>] = 1
        /\ receipts[session[s].receipt].total = 3
        /\ \A b \in Items \ SingleItems : item_reserve_response(s, b) = RET_CONFLICT

\* C9: finish answers Conflict when the session references another receipt
\* or the receipt is not Pending; a successful finish moves every item with
\* an ADD row on the receipt from Staged to Sold and no other item, makes the
\* receipt Finished with an end time and its total untouched, and clears the
\* session's receipt reference; a failing call changes nothing.
C9_FinishEffects ==
    [][vars' # vars => \A s \in Sessions, id \in Idx(receipts) :
          LoggedIn(s) =>
              /\ (\/ session[s].receipt # None /\ session[s].receipt # id
                  \/ receipts[id].status # PENDING)
                     => receipt_finish_response(s, id) = RET_CONFLICT
              /\ IF receipt_finish_response(s, id) = RET_OK
                 THEN receipt_finish(s, id) =>
                        /\ \A i \in Items :
                              IF rows[<<id, i, ADD>>] > 0
                              THEN /\ items[i].state = STAGED
                                   /\ items'[i] = [items[i] EXCEPT !.state = SOLD]
                              ELSE items'[i] = items[i]
                        /\ receipts' = [receipts EXCEPT ![id].status = FINISHED,
                                                        ![id].ended = TRUE]
                        /\ session'[s].receipt = None
                        /\ UNCHANGED <<rows, extras>>
                 ELSE receipt_finish(s, id) => UNCHANGED vars]_vars

\* The scenario of C9: an item of price p, checked in, reserved and finished,
\* is Sold on a Finished receipt of total p that no session references, and
\* another finish of that receipt is answered with Conflict.
C9_Witness ==
    \E r \in PurchaseReceipts, i \in SingleItems, s \in Sessions :
        /\ LoggedIn(s) /\ session[s].receipt = None
        /\ receipts[r].status = FINISHED /\ receipts[r].ended
        /\ items[i].state = SOLD /\ items[i].price = 2
        /\ added_items(rows, r) = {i} /\ receipts[r].total = 2
        /\ receipt_finish_response(s, r) = RET_CONFLICT

C11_CheckoutSingle ==
    [][vars' # vars => \A s \in Sessions, i \in SingleItems, v \in Vendors \cup {None} :
          LoggedIn(s) =>
              /\ item_checkout_response(i, v) =
                     (IF v # None /\ v # vendor_id(i) THEN RET_LOCKED
                      ELSE IF items[i].state \in {BROUGHT, ADVERTISED} THEN RET_OK
                      ELSE RET_CONFLICT)
              /\ IF item_checkout_response(i, v) = RET_OK
                 THEN item_checkout(s, i, v) =>
                        /\ items' = [items EXCEPT ![i].state = RETURNED]
                        /\ UNCHANGED <<box_number, receipts, rows, extras, session>>
                 ELSE item_checkout(s, i, v) => UNCHANGED vars]_vars

\* One item has been returned and the other is Sold, so that a check-out of
\* either is answered with Conflict, and with Locked for another vendor.
C11_Witness ==
    \E s \in Sessions, i \in SingleItems, j \in SingleItems, v \in Vendors :
        /\ LoggedIn(s)
        /\ items[i].state = RETURNED /\ items[j].state = SOLD
        /\ item_checkout_response(i, None) = RET_CONFLICT
        /\ item_checkout_response(j, vendor_id(j)) = RET_CONFLICT
        /\ v # vendor_id(j) /\ item_checkout_response(j, v) = RET_LOCKED

BoxItems == Items \ SingleItems

\* C12: check-out with the code of the representative item of a box (and no
\* foreign vendor id) succeeds, moves every Brought item of the box to
\* Returned and changes nothing else, and the counts it reports are the
\* numbers of Brought and Returned items of the box after the call; with the
\* code of another item of the box it answers Conflict and changes nothing.
C12_CheckoutBox ==
    [][vars' # vars => \A s \in Sessions, i \in BoxItems, v \in Vendors \cup {None} :
          (LoggedIn(s) /\ (v = None \/ v = vendor_id(i))) =>
              IF i = representative_item(box_id(i))
              THEN /\ item_checkout_response(i, v) = RET_OK
                   /\ item_checkout(s, i, v) =>
                          /\ \A j \in Items :
                                items'[j] = IF box_id(j) = box_id(i) /\ items[j].state = BROUGHT
                                            THEN [items[j] EXCEPT !.state = RETURNED]
                                            ELSE items[j]
                          /\ checkout_box_info(items', box_id(i)).returnable_count =
                                Cardinality({j \in Items : box_id(j) = box_id(i)
                                                           /\ items'[j].state = BROUGHT})
                          /\ checkout_box_info(items', box_id(i)).returned_count =
                                Cardinality({j \in Items : box_id(j) = box_id(i)
                                                           /\ items'[j].state = RETURNED})
                          /\ UNCHANGED <<box_number, receipts, rows, extras, session>>
              ELSE /\ item_checkout_response(i, v) = RET_CONFLICT
                   /\ item_checkout(s, i, v) => UNCHANGED vars]_vars

\* Both items of the box have been returned by one check-out, which reports
\* no returnable and two returned items.
C12_Witness ==
    /\ \A j \in BoxItems : items[j].state = RETURNED
    /\ checkout_box_info(items, 1) = [item_count |-> 2, returnable_count |-> 0, returned_count |-> 2]
    /\ \E s \in Sessions : LoggedIn(s) /\ item_checkout_response(4, None) = RET_CONFLICT

\* C13: release answers BadRequest when the session references no receipt,
\* Conflict when the item has no ADD row on the session's receipt, and
\* succeeds otherwise; a successful call turns one ADD row of the item on that
\* receipt into a REMOVED_LATER row with a new REMOVE row, sets the item to
\* Brought and lowers the receipt's total by the item's price, and changes
\* nothing else; a failing call changes nothing.
C13_ReleaseEffects ==
    [][vars' # vars => \A s \in Sessions, i \in Items :
          LoggedIn(s) =>
              /\ item_release_response(s, i) =
                     (IF session[s].receipt = None THEN RET_BAD_REQUEST
                      ELSE IF rows[<<session[s].receipt, i, ADD>>] > 0 THEN RET_OK
                      ELSE RET_CONFLICT)
              /\ IF item_release_response(s, i) = RET_OK
                 THEN item_release(s, i) =>
                        LET rid == session[s].receipt
                        IN /\ rows' = [rows EXCEPT ![<<rid, i, ADD>>] = @ - 1,
                                                   ![<<rid, i, REMOVED_LATER>>] = @ + 1,
                                                   ![<<rid, i, REMOVE>>] = @ + 1]
                           /\ items' = [items EXCEPT ![i].state = BROUGHT]
                           /\ receipts' = [receipts EXCEPT ![rid].total = @ - items[i].price]
                           /\ UNCHANGED <<box_number, extras, session>>
                 ELSE item_release(s, i) => UNCHANGED vars]_vars

\* An item reserved from Advertised has been released (to Brought) and is now
\* staged on another receipt, so that the first session's release is answered
\* with Conflict.
C13_Witness ==
    \E s \in Sessions, i \in SingleItems, r \in PurchaseReceipts :
        /\ LoggedIn(s) /\ session[s].receipt \notin {None, r}
        /\ receipts[session[s].receipt].status = PENDING /\ receipts[r].status = PENDING
        /\ rows[<<session[s].receipt, i, REMOVE>>] = 1
        /\ rows[<<session[s].receipt, i, REMOVED_LATER>>] = 1
        /\ receipts[session[s].receipt].total = 0
        /\ items[i].state = STAGED /\ rows[<<r, i, ADD>>] = 1
        /\ item_release_response(s, i) = RET_CONFLICT

\* C14 as stated, for single items: a requested change of state succeeds
\* when it goes from Sold, Compensated or Returned to a different state in
\* {Advertised, Brought, Missing, Returned}, and every other requested change
\* of state is answered with BadRequest.
C14_EditStateAsStated ==
    \A i \in SingleItems, state \in ItemStates :
        state # items[i].state =>
            item_edit_response(i, items[i].price, state) =
                (IF /\ items[i].state \in {SOLD, COMPENSATED, RETURNED}
                    /\ state \in {ADVERTISED, BROUGHT, MISSING, RETURNED}
                 THEN RET_OK ELSE RET_BAD_REQUEST)

\* C14, amended: for a single item, a requested change of state succeeds
\* exactly when it goes from Sold or Compensated to a state in {Advertised,
\* Brought, Missing, Returned} (and a price change, if any, comes with a
\* target state Advertised or Brought); the edit then sets state and price,
\* turns every ADD row of the item into a REMOVED_LATER row with a REMOVE row
\* and touches no row of another item and no other item.  Every other
\* requested change of state (from Returned too) is answered with BadRequest,
\* and for an item of a box with Conflict, and changes nothing.
C14_EditState ==
    \A i \in Items, price \in Prices, state \in ItemStates :
        state # items[i].state =>
            LET d == item_edit_result(i, price, state)
            IN IF box_id(i) # None
               THEN item_edit_response(i, price, state) = RET_CONFLICT /\ d = Database
               ELSE IF /\ items[i].state \in {SOLD, COMPENSATED}
                       /\ state \in {ADVERTISED, BROUGHT, MISSING, RETURNED}
                       /\ (price = items[i].price \/ state \in {ADVERTISED, BROUGHT})
               THEN /\ item_edit_response(i, price, state) = RET_OK
                    /\ d.items = [items EXCEPT ![i].state = state, ![i].price = price]
                    /\ \A r \in 1..MaxReceipts :
                          /\ d.rows[<<r, i, ADD>>] = 0
                          /\ d.rows[<<r, i, REMOVED_LATER>>] =
                                rows[<<r, i, REMOVED_LATER>>] + rows[<<r, i, ADD>>]
                          /\ d.rows[<<r, i, REMOVE>>] =
                                rows[<<r, i, REMOVE>>] + rows[<<r, i, ADD>>]
                    /\ \A k \in RowKeys : k[2] # i => d.rows[k] = rows[k]
                    /\ d.extras = extras
               ELSE item_edit_response(i, price, state) = RET_BAD_REQUEST /\ d = Database

\* A Compensated item has been edited back to an unsold state and so has left
\* the purchase receipt and the compensation receipt that held it.
C14_Witness ==
    \E i \in SingleItems, r1 \in Idx(receipts), r2 \in Idx(receipts) :
        /\ receipts[r1].type = TYPE_PURCHASE /\ receipts[r2].type = TYPE_COMPENSATION
        /\ rows[<<r1, i, REMOVED_LATER>>] = 1 /\ rows[<<r1, i, REMOVE>>] = 1
        /\ rows[<<r2, i, REMOVED_LATER>>] = 1 /\ rows[<<r2, i, REMOVE>>] = 1
        /\ rows[<<r1, i, ADD>>] = 0 /\ rows[<<r2, i, ADD>>] = 0
        /\ items[i].state = MISSING

\* C15: compensate is answered Conflict when the session has no compensation
\* open, NotFound when the item is not of the vendor being compensated and
\* Conflict when the item is not Sold; otherwise it moves exactly that item
\* from Sold to Compensated, adds exactly one ADD row for it to the session's
\* compensation receipt and raises that receipt's total by the item's price,
\* after which no session's compensate of the item succeeds.  A failing call
\* changes nothing.
C15_CompensateEffects ==
    [][vars' # vars => \A s \in Sessions, i \in Items :
          LoggedIn(s) =>
              /\ item_compensate_response(s, i) =
                    (IF session[s].compensation = None THEN RET_CONFLICT
                     ELSE IF vendor_id(i) # receipts[session[s].compensation].vendor
                     THEN RET_NOT_FOUND
                     ELSE IF items[i].state = SOLD THEN RET_OK ELSE RET_CONFLICT)
              /\ IF item_compensate_response(s, i) = RET_OK
                 THEN item_compensate(s, i) =>
                          LET rid == session[s].compensation
                          IN /\ items' = [items EXCEPT ![i].state = COMPENSATED]
                             /\ rows' = [rows EXCEPT ![<<rid, i, ADD>>] = @ + 1]
                             /\ receipts' = [receipts EXCEPT ![rid].total = @ + items[i].price]
                             /\ UNCHANGED <<box_number, extras, session>>
                             /\ \A s2 \in Sessions : item_compensate_response(s2, i)' # RET_OK
                 ELSE item_compensate(s, i) => UNCHANGED vars]_vars

\* Both desks have a compensation of the same vendor open; one item went onto
\* the receipt of the first desk and the other onto that of the second, and a
\* further compensate of either item is refused at both desks.
C15_Witness ==
    /\ \A s \in Sessions : LoggedIn(s) /\ session[s].compensation # None
    /\ session[1].compensation # session[2].compensation
    /\ items[1].state = COMPENSATED /\ items[2].state = COMPENSATED
    /\ rows[<<session[1].compensation, 1, ADD>>] = 1 /\ rows[<<session[2].compensation, 1, ADD>>] = 0
    /\ rows[<<session[2].compensation, 2, ADD>>] = 1 /\ rows[<<session[1].compensation, 2, ADD>>] = 0
    /\ receipts[session[1].compensation].total = 1 /\ receipts[session[2].compensation].total = 2
    /\ \A s \in Sessions, i \in SingleItems : item_compensate_response(s, i) = RET_CONFLICT

\* C16: per session, compensate/start is answered Conflict while the session
\* holds a compensation and otherwise, for a vendor of the event, appends a
\* pending Compensation receipt of that vendor and stores its id in the
\* session; compensate and compensate/end are answered Conflict while the
\* session holds none; compensate/end finishes the session's receipt and
\* clears the handle.  The handle is set by compensate/start only and cleared
\* by compensate/end only, so a compensate after an end fails until the next
\* start.
C16_CompensationOrder ==
    [][vars' # vars => \A s \in Sessions :
          /\ LoggedIn(s) =>
                /\ \A v \in Vendors :
                      /\ item_compensate_start_response(s, v) =
                            (IF session[s].compensation # None THEN RET_CONFLICT ELSE RET_OK)
                      /\ (item_compensate_start_response(s, v) = RET_OK /\ item_compensate_start(s, v)) =>
                            /\ receipts' = Append(receipts, [clerk |-> session[s].clerk,
                                                             type |-> TYPE_COMPENSATION,
                                                             status |-> PENDING, total |-> 0,
                                                             ended |-> FALSE, vendor |-> v])
                            /\ session' = [session EXCEPT ![s].compensation = Len(receipts')]
                            /\ UNCHANGED <<items, box_number, rows, extras>>
                /\ session[s].compensation = None =>
                      /\ \A i \in Items : item_compensate_response(s, i) = RET_CONFLICT
                      /\ item_compensate_end_response(s) = RET_CONFLICT
                /\ session[s].compensation # None =>
                      /\ item_compensate_end_response(s) = RET_OK
                      /\ \A p \in ProvisionFixOutcomes :
                            item_compensate_end(s, p) =>
                                /\ receipts'[session[s].compensation].status = FINISHED
                                /\ session' = [session EXCEPT ![s].compensation = None]
                                /\ \A i \in Items : item_compensate_response(s, i)' = RET_CONFLICT
          /\ (session[s].compensation = None /\ session'[s].compensation # None) =>
                \E v \in Vendors : item_compensate_start(s, v)
          /\ (session[s].compensation # None /\ session'[s].compensation # session[s].compensation) =>
                \E p \in ProvisionFixOutcomes : item_compensate_end(s, p)]_vars

\* A desk has ended one compensation and started the next: the first receipt
\* is finished and holds the compensated item, the second is pending and is
\* the one the session refers to.
C16_Witness ==
    \E s \in Sessions, r1 \in Idx(receipts), r2 \in Idx(receipts) :
        /\ LoggedIn(s) /\ r1 < r2 /\ session[s].compensation = r2
        /\ receipts[r1].type = TYPE_COMPENSATION /\ receipts[r1].status = FINISHED
        /\ receipts[r2].type = TYPE_COMPENSATION /\ receipts[r2].status = PENDING
        /\ \E i \in SingleItems : rows[<<r1, i, ADD>>] = 1 /\ items[i].state = COMPENSATED
        /\ receipts[r1].clerk = session[s].clerk /\ receipts[r2].clerk = session[s].clerk

C19_CapRespected ==
    max_brought_items # None =>
        \A v \in Vendors :
            Cardinality({j \in Items : vendor_id(j) = v /\ items[j].state = BROUGHT})
                <= max_brought_items

C21_ClosedReceiptFrozen ==
    [][vars' # vars => \A r \in Idx(receipts) :
          (/\ receipts[r].status \in {FINISHED, ABORTED}
           /\ \/ \E s \in Sessions, i \in Items : item_reserve(s, i) \/ item_release(s, i)
              \/ \E s \in Sessions, id \in Idx(receipts) : receipt_finish(s, id) \/ receipt_abort(s, id)) =>
              /\ receipts'[r] = receipts[r]
              /\ \A i \in Items, a \in Actions : rows'[<<r, i, a>>] = rows[<<r, i, a>>]]_vars

\* -------------------------------------------------------------- state log
\* ItemStateLog.objects.log_state(item, new_state): one record with the state
\* the item has at the call and the new state.
log_state(its, i, new_state) == {[item |-> i, old_state |-> its[i].state, new_state |-> new_state]}

\* ItemStateLog.objects.log_states(item_set, new_state)
log_states(its, item_set, new_state) == UNION {log_state(its, i, new_state) : i \in item_set}

\* The record forms.remove_item_from_receipt writes for setting the item to
\* BROUGHT.
remove_item_from_receipt_logged(its, i) ==
    IF its[i].state # BROUGHT THEN log_state(its, i, BROUGHT) ELSE {}

\* The records each request appends to the state log.
item_checkin_logged(i) ==
    IF item_checkin_response(i) = RET_OK THEN log_state(items, i, BROUGHT) ELSE {}

item_checkout_logged(i, vendor) ==
    IF item_checkout_response(i, vendor) # RET_OK THEN {}
    ELSE IF box_id(i) # None
    THEN log_states(items, {j \in box_items(box_id(i)) : items[j].state = BROUGHT}, RETURNED)
    ELSE log_state(items, i, RETURNED)

item_reserve_logged(s, i) ==
    IF item_reserve_response(s, i) = RET_OK THEN log_state(items, i, STAGED) ELSE {}

item_release_logged(s, i) ==
    IF item_release_response(s, i) = RET_OK THEN remove_item_from_receipt_logged(items, i) ELSE {}

\* item/edit itself logs nothing: the only records of an edit are those of the
\* removals from the receipts, and the assignment of the requested state that
\* follows them is not logged.
item_edit_logged(i, price, state) ==
    IF /\ item_edit_response(i, price, state) = RET_OK
       /\ items[i].state # state
       /\ receipt_ids(rows, i) # {}
    THEN remove_item_from_receipt_logged(items, i)
    ELSE {}

receipt_finish_logged(s, id) ==
    IF receipt_finish_response(s, id) = RET_OK
    THEN log_states(items, finish_items(rows, id), finish_state)
    ELSE {}

receipt_abort_logged(s, id) ==
    IF receipt_abort_response(s, id) = RET_OK
    THEN log_states(items, {i \in added_items(rows, id) : items[i].state # BROUGHT}, BROUGHT)
    ELSE {}

item_compensate_logged(s, i) ==
    IF item_compensate_response(s, i) = RET_OK THEN log_state(items, i, COMPENSATED) ELSE {}

\* The records of a request say that item i went from its old to its new state,
\* once.
LoggedOnce(logged, i) ==
    {r \in logged : r.item = i} = {[item |-> i, old_state |-> items[i].state, new_state |-> items'[i].state]}

\* The step is a request other than item/edit and its records hold the change
\* of item i.
C22_LoggedByRequest(i) ==
    \/ \E s \in Sessions : item_checkin(s, i) /\ LoggedOnce(item_checkin_logged(i), i)
    \/ \E s \in Sessions, j \in Items, v \in Vendors \cup {None} :
          item_checkout(s, j, v) /\ LoggedOnce(item_checkout_logged(j, v), i)
    \/ \E s \in Sessions : item_reserve(s, i) /\ LoggedOnce(item_reserve_logged(s, i), i)
    \/ \E s \in Sessions : item_release(s, i) /\ LoggedOnce(item_release_logged(s, i), i)
    \/ \E s \in Sessions, id \in Idx(receipts) :
          receipt_finish(s, id) /\ LoggedOnce(receipt_finish_logged(s, id), i)
    \/ \E s \in Sessions, id \in Idx(receipts) :
          receipt_abort(s, id) /\ LoggedOnce(receipt_abort_logged(s, id), i)
    \/ \E s \in Sessions : item_compensate(s, i) /\ LoggedOnce(item_compensate_logged(s, i), i)

C22_LoggedByEdit(i) ==
    \E s \in Sessions, price \in Prices, state \in ItemStates :
        item_edit(s, i, price, state) /\ LoggedOnce(item_edit_logged(i, price, state), i)

\* C22: every step that changes the state of an item appends exactly one record
\* for that item to the state log, carrying its old and its new state.
C22_EveryChangeLogged ==
    [][vars' # vars => \A i \in Items :
          items'[i].state # items[i].state => (C22_LoggedByRequest(i) \/ C22_LoggedByEdit(i))]_vars

\* Every change of state made by a request other than item/edit is logged once.
C22_OtherRequestsLogged ==
    [][vars' # vars => \A i \in Items :
          (items'[i].state # items[i].state
           /\ ~\E s \in Sessions, price \in Prices, state \in ItemStates : item_edit(s, i, price, state)) =>
              C22_LoggedByRequest(i)]_vars

\* ---------------------------------------------------------------- row locks
\* The rows a request locks with select_for_update() or by writing them, held
\* until its transaction ends.
item_row(i) == <<"item", i>>
receipt_row(r) == <<"receipt", r>>
locked_by_other(s, row) == \E t \in Sessions \ {s} : row \in txn[t].held

\* The rows each request asks for next, given the rows it holds: what it reads
\* after one lock decides the next one.  {} when it has all its locks or has
\* raised its error.
item_reserve_locks(s, i, held) ==
    IF item_row(i) \notin held THEN {item_row(i)}
    ELSE IF box_id(i) # None \/ session[s].receipt = None THEN {}
    ELSE {receipt_row(session[s].receipt)} \ held

item_release_locks(s, i, held) ==
    IF item_row(i) \notin held THEN {item_row(i)}
    ELSE IF session[s].receipt = None THEN {}
    ELSE {receipt_row(session[s].receipt)} \ held

get_active_receipt_locks(s, id, held, allowed_states, item_set) ==
    IF session[s].receipt # None /\ session[s].receipt # id THEN {}
    ELSE IF receipt_row(id) \notin held THEN {receipt_row(id)}
    ELSE IF receipts[id].status \notin allowed_states THEN {}
    ELSE {item_row(i) : i \in item_set} \ held

receipt_finish_locks(s, id, held) ==
    get_active_receipt_locks(s, id, held, {PENDING}, finish_items(rows, id))

receipt_abort_locks(s, id, held) ==
    get_active_receipt_locks(s, id, held, {PENDING, SUSPENDED},
                             {i \in added_items(rows, id) : items[i].state # BROUGHT})

item_compensate_locks(s, i, held) ==
    IF session[s].compensation = None THEN {}
    ELSE IF receipt_row(session[s].compensation) \notin held THEN {receipt_row(session[s].compensation)}
    ELSE IF vendor_id(i) # receipts[session[s].compensation].vendor THEN {}
    ELSE {item_row(i)} \ held

item_checkout_locks(s, i, held) ==
    IF item_row(i) \notin held THEN {item_row(i)}
    ELSE IF box_id(i) # None /\ representative_item(box_id(i)) = i
    THEN {item_row(j) : j \in {k \in box_items(box_id(i)) : items[k].state = BROUGHT}} \ held
    ELSE {}

LockOps == {"reserve", "release", "compensate", "checkout", "finish", "abort"}

txn_locks(s) ==
    LET t == txn[s]
    IN CASE t.op = "reserve" -> item_reserve_locks(s, t.item, t.held)
         [] t.op = "release" -> item_release_locks(s, t.item, t.held)
         [] t.op = "compensate" -> item_compensate_locks(s, t.item, t.held)
         [] t.op = "checkout" -> item_checkout_locks(s, t.item, t.held)
         [] t.op = "finish" -> receipt_finish_locks(s, t.id, t.held)
         [] t.op = "abort" -> receipt_abort_locks(s, t.id, t.held)
         [] OTHER -> {}

\* ajax_func opens the transaction of a request (atomic=True).
txn_begin(s, op, i, id) ==
    /\ LoggedIn(s)
    /\ txn[s] = NoTxn
    /\ txn' = [txn EXCEPT ![s] = [op |-> op, item |-> i, id |-> id, held |-> {}]]
    /\ UNCHANGED store

\* The request gets the next row lock it asks for; it waits while another
\* transaction holds the row.
select_for_update(s) ==
    /\ txn[s] # NoTxn
    /\ \E row \in txn_locks(s) :
          /\ ~locked_by_other(s, row)
          /\ txn' = [txn EXCEPT ![s].held = @ \cup {row}]
    /\ UNCHANGED store

\* With all its locks the request runs to its end; the transaction commits, or
\* rolls back on an error, and the locks are released.
txn_commit(s) ==
    /\ txn[s] # NoTxn
    /\ txn_locks(s) = {}
    /\ LET t == txn[s]
       IN CASE t.op = "reserve" -> item_reserve_fn(s, t.item)
            [] t.op = "release" -> item_release_fn(s, t.item)
            [] t.op = "compensate" -> item_compensate_fn(s, t.item)
            [] t.op = "checkout" -> item_checkout_fn(s, t.item, None)
            [] t.op = "finish" -> receipt_finish_fn(s, t.id)
            [] t.op = "abort" -> receipt_abort_fn(s, t.id)
    /\ txn' = [txn EXCEPT ![s] = NoTxn]

\* The request dies before its end (the connection drops, the worker stops):
\* the transaction rolls back.
txn_rollback(s) ==
    /\ txn[s] # NoTxn
    /\ txn' = [txn EXCEPT ![s] = NoTxn]
    /\ UNCHANGED store

\* Clerk 1 at two counters with one single item and the representative item of
\* the box: every request that locks rows takes its locks one at a time, and
\* requests of the two counters interleave.
LockedItems == {1}
ReturnedItems == {1, 3}
LockingClerks == {1}

NextLocks ==
    \/ \E s \in Sessions, c \in LockingClerks : clerk_login(s, c)
    \/ \E s \in SoloSessions : Len(receipts) < MaxOpened /\ receipt_start(s)
    \/ \E s \in SoloSessions : Len(receipts) < MaxOpened /\ receipt_start_save(s)
    \/ \E s \in SoloSessions, v \in CompensatedVendors :
          Len(receipts) < MaxOpened /\ item_compensate_start(s, v)
    \/ \E s \in Sessions, op \in {"reserve", "release", "compensate"}, i \in LockedItems :
          txn_begin(s, op, i, None)
    \/ \E s \in Sessions, i \in ReturnedItems : txn_begin(s, "checkout", i, None)
    \/ \E s \in Sessions, op \in {"finish", "abort"}, id \in Idx(receipts) :
          receipts[id].type = TYPE_PURCHASE /\ txn_begin(s, op, None, id)
    \/ \E s \in Sessions : select_for_update(s)
    \/ \E s \in Sessions : txn_commit(s)
    \/ \E s \in Sessions : txn_rollback(s)

SpecLocks == Init /\ [][NextLocks]_vars

\* Session s waits for a row that session t holds; s is blocked when every row
\* it asks for is held by another session.
waits_for(s, t) == s # t /\ \E row \in txn_locks(s) : row \in txn[t].held
blocked(s) == txn_locks(s) # {} /\ \A row \in txn_locks(s) : locked_by_other(s, row)

\* C23: no two requests ever wait for each other's row locks.
C23_NoLockCycle ==
    \A s, t \in Sessions : ~(blocked(s) /\ blocked(t) /\ waits_for(s, t) /\ waits_for(t, s))

\* The rows item/compensate/end has appended to the ReceiptExtraRow table.
appended_extras == SubSeq(extras', Len(extras) + 1, Len(extras'))
ItemsTotal(rid) == LET v(i) == rows[<<rid, i, ADD>>] * items[i].price IN SumTo(v, NItems)

\* C24: compensate/end appends a provision row exactly when the provision
\* calculator reports a provision, after it a provision_fix row exactly when
\* the reported provision_fix is non-zero as well, and no other row; the receipt
\* is Finished with a total equal to the prices of its compensated items plus
\* the values of the rows appended.
C24_ProvisionRows ==
    [][vars' # vars => \A s \in Sessions, p \in ProvisionFixOutcomes :
          (item_compensate_end(s, p) /\ item_compensate_end_response(s) = RET_OK) =>
              LET rid == session[s].compensation
                  new == appended_extras
                  isProvision(e) == e.type = TYPE_PROVISION
                  isProvisionFix(e) == e.type = TYPE_PROVISION_FIX
                  value(e) == e.value
              IN /\ \A k \in Idx(new) : new[k].receipt = rid
                 /\ Len(SelectSeq(new, isProvision)) = (IF p.has_provision THEN 1 ELSE 0)
                 /\ Len(SelectSeq(new, isProvisionFix))
                        = (IF p.has_provision /\ p.provision_fix # 0 THEN 1 ELSE 0)
                 /\ Len(new) <= 2
                 /\ \A k \in Idx(new) :
                        /\ new[k].type = TYPE_PROVISION => new[k].value = p.provision
                        /\ new[k].type = TYPE_PROVISION_FIX =>
                               new[k].value = p.provision_fix /\ new[k].value # 0
                 /\ receipts'[rid].status = FINISHED
                 /\ receipts'[rid].total = ItemsTotal(rid) + SumSeq(value, new)]_vars

\* A compensation receipt is Finished with a compensated item, a provision row
\* and a provision_fix row, and its total is the sum of the three.
C24_Witness ==
    \E r \in Idx(receipts) :
        /\ receipts[r].type = TYPE_COMPENSATION /\ receipts[r].status = FINISHED
        /\ added_items(rows, r) # {}
        /\ \E k, l \in Idx(extras) :
              /\ extras[k].receipt = r /\ extras[k].type = TYPE_PROVISION
              /\ extras[l].receipt = r /\ extras[l].type = TYPE_PROVISION_FIX
        /\ receipts[r].total = ItemsTotal(r) + ExtrasTotal(r)

\* ------------------------------------------ concurrent vendor/token/create
\* vendor/token/create as the two steps other requests can run between.  The
\* first runs the select_for_update() query over the vendor's permits, logs
\* them and updates them; it waits while another transaction holds one of
\* these rows, and a vendor without permits gives it no row to lock.  The
\* second draws the short codes, creates the permit and commits; until then
\* no other request sees what the first has written.
permit_row(p) == <<"permit", p>>
locked_permits(s) == {p \in Idx(permits) : permit_row(p) \in txn[s].held}

vendor_token_create_query(s, vendor) ==
    /\ LoggedIn(s)
    /\ txn[s] = NoTxn
    /\ \A k \in Idx(old_permits(vendor)) : ~locked_by_other(s, permit_row(old_permits(vendor)[k]))
    /\ txn' = [txn EXCEPT ![s] = [op |-> "token", item |-> None, id |-> vendor,
                                  held |-> {permit_row(old_permits(vendor)[k]) :
                                                k \in Idx(old_permits(vendor))}]]
    /\ UNCHANGED store

\* What the first step has logged and updated: the permits it found.
invalidate_locked(s) ==
    LET old == SelectSeq([p \in Idx(permits) |-> p], LAMBDA p : p \in locked_permits(s))
    IN [permits |-> [p \in Idx(permits) |->
                        IF p \in locked_permits(s)
                        THEN [permits[p] EXCEPT !.state = STATE_INVALIDATED] ELSE permits[p]],
        permit_log |-> permit_log \o [k \in Idx(old) |->
                                        [permit |-> old[k], action |-> ACTION_INVALIDATE]]]

vendor_token_create_save(s, draws) ==
    /\ txn[s].op = "token"
    /\ LET d == invalidate_locked(s)
           k == CHOOSE k \in 1..MaxRetries :
                    /\ draws[k] \notin used_codes
                    /\ \A j \in 1..(k - 1) : draws[j] \in used_codes
       IN IF vendor_token_create_response(draws) = RET_OK
          THEN /\ permits' = Append(d.permits, [vendor |-> txn[s].id, state |-> STATE_UNUSED,
                                                short_code |-> draws[k]])
               /\ permit_log' = Append(d.permit_log, [permit |-> Len(permits) + 1,
                                                      action |-> ACTION_ADD])
          ELSE /\ permits' = transaction_atomic(vendor_token_create_atomic, PermitDatabase, d).permits
               /\ permit_log' = transaction_atomic(vendor_token_create_atomic, PermitDatabase, d).permit_log
    /\ txn' = [txn EXCEPT ![s] = NoTxn]
    /\ UNCHANGED <<db, session, pc, max_brought_items>>

\* Two counters issuing permits to the vendors until the short codes run out.
NextPermits ==
    \/ \E s \in Sessions : \E c \in CounterClerks(s) : clerk_login(s, c)
    \/ \E s \in Sessions : clerk_logout(s)
    \/ \E s \in Sessions, v \in Vendors : vendor_token_create_query(s, v)
    \/ \E s \in Sessions, draws \in [1..MaxRetries -> Codes] : vendor_token_create_save(s, draws)

SpecPermits == Init /\ [][NextPermits]_vars

active_permits(vendor) == {p \in Idx(permits) : permits[p].vendor = vendor /\ permits[p].state = STATE_UNUSED}

\* C25: a vendor never has more than one permit that is not invalidated.
C25_OneActivePermit ==
    \A v \in Vendors : Cardinality(active_permits(v)) <= 1

\* ------------------------------------------------------- receipt/activate
\* Two counters over a Receipt table of two receipts of any clerk, type and
\* status, as earlier sales, compensations and suspensions have left it.
ReceiptStatuses == {PENDING, SUSPENDED, FINISHED, ABORTED}
ReceiptTypes == {TYPE_PURCHASE, TYPE_COMPENSATION}
StoredReceipts ==
    {[clerk |-> c, type |-> t, status |-> st, total |-> 0,
      ended |-> (st \in {FINISHED, ABORTED}),
      vendor |-> (IF t = TYPE_COMPENSATION THEN 1 ELSE None)] :
        c \in Clerks, t \in ReceiptTypes, st \in ReceiptStatuses}

InitActivate ==
    /\ items = [i \in Items |-> [state |-> ADVERTISED, price |-> 1, abandoned |-> FALSE, lost_property |-> FALSE]]
    /\ box_number = None
    /\ receipts \in [1..2 -> StoredReceipts]
    /\ rows = [k \in RowKeys |-> 0]
    /\ extras = <<>>
    /\ session = [s \in Sessions |-> [clerk |-> None, receipt |-> None, compensation |-> None]]
    /\ pc = [s \in Sessions |-> "idle"]
    /\ txn = [s \in Sessions |-> NoTxn]
    /\ max_brought_items = None
    /\ permits = <<>>
    /\ permit_log = <<>>

NextActivate ==
    \/ \E s \in Sessions : \E c \in CounterClerks(s) : clerk_login(s, c)
    \/ \E s \in Sessions : clerk_logout(s)
    \/ \E s \in Sessions, id \in 1..MaxReceipts : receipt_activate(s, id)

SpecActivate == InitActivate /\ [][NextActivate]_vars

\* The receipt is a purchase receipt of the clerk of the session.
own_purchase_receipt(s, id) ==
    /\ id \in Idx(receipts)
    /\ receipts[id].type = TYPE_PURCHASE
    /\ receipts[id].clerk = session[s].clerk

\* C26 as stated: activate(id) succeeds exactly for a purchase receipt of the
\* calling clerk that is Pending or Suspended.
C26_ActivateAsStated ==
    \A s \in Sessions, id \in 1..MaxReceipts :
        LoggedIn(s) =>
            (receipt_activate_response(s, id) = RET_OK
                <=> (own_purchase_receipt(s, id) /\ receipts[id].status \in {PENDING, SUSPENDED}))

\* C26, amended: activate(id) succeeds exactly for a purchase receipt of the
\* calling clerk that is Pending, and then makes id the active receipt of the
\* session and changes no other session; for every other receipt (another
\* clerk's, a compensation, Suspended, Finished, Aborted or missing) it fails
\* with NotFound and leaves every session as it is.
C26_Activate ==
    \A s \in Sessions, id \in 1..MaxReceipts :
        LoggedIn(s) =>
            IF own_purchase_receipt(s, id) /\ receipts[id].status = PENDING
            THEN /\ receipt_activate_response(s, id) = RET_OK
                 /\ receipt_activate_result(s, id)[s] = [session[s] EXCEPT !.receipt = id]
                 /\ \A t \in Sessions \ {s} : receipt_activate_result(s, id)[t] = session[t]
            ELSE /\ receipt_activate_response(s, id) = RET_NOT_FOUND
                 /\ receipt_activate_result(s, id) = session

\* A clerk with two Pending receipts, whom login attaches to neither, has
\* activated one of them.
C26_Witness ==
    \E s \in Sessions, id \in Idx(receipts) :
        /\ LoggedIn(s)
        /\ own_purchase_receipt(s, id)
        /\ session[s].receipt = id
        /\ Cardinality(active_receipts(session[s].clerk)) > 1
        /\ receipts[id].status = PENDING

\* ---------------------------------------------------- abandoned, lost items
\* item/abandon: the vendor's Brought and Missing items are flagged abandoned.
abandon_states == {BROUGHT, MISSING}

items_abandon(s, vendor) ==
    /\ LoggedIn(s)
    /\ items' = [i \in Items |-> IF vendor_id(i) = vendor /\ items[i].state \in abandon_states
                                 THEN [items[i] EXCEPT !.abandoned = TRUE] ELSE items[i]]
    /\ UNCHANGED <<box_number, receipts, rows, extras, session, pc, max_brought_items, access, txn>>

\* Fault model: a Staged item can be marked lost.
item_mark_lost_response_staged(i) ==
    IF items[i].state = SOLD THEN RET_CONFLICT
    ELSE IF items[i].abandoned THEN RET_CONFLICT
    ELSE RET_OK

\* item/mark_lost
item_mark_lost_response(i) ==
    IF items[i].state = SOLD THEN RET_CONFLICT
    ELSE IF items[i].state = STAGED THEN RET_CONFLICT
    ELSE IF items[i].abandoned THEN RET_CONFLICT
    ELSE RET_OK

\* The Item table item/mark_lost leaves behind.
item_mark_lost_result(i) ==
    IF item_mark_lost_response(i) = RET_OK
    THEN [items EXCEPT ![i].lost_property = TRUE]
    ELSE items

item_mark_lost(s, i) ==
    /\ LoggedIn(s)
    /\ items' = item_mark_lost_result(i)
    /\ UNCHANGED <<box_number, receipts, rows, extras, session, pc, max_brought_items, access, txn>>

\* One counter where the single items are brought, sold and returned, the
\* vendors' items are declared abandoned and items are marked lost.
NextLost ==
    \/ \E s \in SoloSessions : \E c \in CounterClerks(s) : clerk_login(s, c)
    \/ \E s \in SoloSessions : Len(receipts) < MaxOpened /\ receipt_start(s)
    \/ \E s \in SoloSessions : Len(receipts) < MaxOpened /\ receipt_start_save(s)
    \/ \E s \in SoloSessions, i \in SingleItems : item_checkin(s, i)
    \/ \E s \in SoloSessions, i \in SingleItems : item_checkout(s, i, None)
    \/ \E s \in SoloSessions, i \in SingleItems : item_reserve(s, i)
    \/ \E s \in SoloSessions, i \in SingleItems : item_release(s, i)
    \/ \E s \in SoloSessions, id \in Idx(receipts) : receipt_finish(s, id)
    \/ \E s \in SoloSessions, id \in Idx(receipts) : receipt_abort(s, id)
    \/ \E s \in SoloSessions, v \in Vendors : items_abandon(s, v)
    \/ \E s \in SoloSessions, i \in Items : item_mark_lost(s, i)

SpecLost == Init /\ [][NextLost]_vars

\* What mark_lost answers and what it leaves of the Item table, in every state.
C27_MarkLostResult ==
    \A i \in Items :
        IF items[i].state \in {SOLD, STAGED} \/ items[i].abandoned
        THEN item_mark_lost_response(i) = RET_CONFLICT /\ item_mark_lost_result(i) = items
        ELSE /\ item_mark_lost_response(i) = RET_OK
             /\ item_mark_lost_result(i)[i].lost_property
             /\ item_mark_lost_result(i)[i].state = items[i].state
             /\ item_mark_lost_result(i)[i].price = items[i].price
             /\ item_mark_lost_result(i)[i].abandoned = items[i].abandoned
             /\ \A j \in Items \ {i} : item_mark_lost_result(i)[j] = items[j]

\* C27: mark_lost fails with Conflict and leaves the Item table as it is when
\* the item is Sold, Staged or abandoned; otherwise it sets the lost_property
\* flag of the item and nothing else of it or of any other item; and a
\* mark_lost step changes no receipt, no receipt row and no session.
C27_MarkLost ==
    /\ []C27_MarkLostResult
    /\ [][vars' # vars => \A s \in Sessions, i \in Items :
             item_mark_lost(s, i) =>
                 /\ items'[i] = [items[i] EXCEPT !.lost_property = TRUE]
                 /\ items[i].state \notin {SOLD, STAGED} /\ ~items[i].abandoned
                 /\ \A j \in Items \ {i} : items'[j] = items[j]
                 /\ UNCHANGED <<box_number, receipts, rows, extras, session>>]_vars

\* An item was marked lost while it was on no receipt, another item is Staged
\* on a receipt and refused, and a third is abandoned and refused.
C27_Witness ==
    /\ \E i \in Items : items[i].lost_property
    /\ \E i \in Items : items[i].state = STAGED /\ ~items[i].lost_property
                        /\ item_mark_lost_response(i) = RET_CONFLICT
    /\ \E i \in Items : items[i].abandoned /\ items[i].state \notin {SOLD, STAGED}
                        /\ item_mark_lost_response(i) = RET_CONFLICT

\* The open purchase receipts that hold the item with an ADD row.
open_receipts_holding(i) ==
    {r \in PurchaseReceipts : receipts[r].status \in {PENDING, SUSPENDED} /\ rows[<<r, i, ADD>>] > 0}

\* C28: an item is Staged exactly when it has an ADD row on exactly one
\* purchase receipt that is Pending or Suspended.
C28_StagedOnOpenReceipt ==
    \A i \in Items : items[i].state = STAGED <=> Cardinality(open_receipts_holding(i)) = 1

\* C29: from a session without an active-receipt reference, finish(id) and
\* abort(id) on a Pending purchase receipt are accepted and leave the database
\* their writes make, as from a session that references id.
C29_AcceptedWithoutReference ==
    \A s \in Sessions, id \in Idx(receipts) :
        (/\ LoggedIn(s)
         /\ session[s].receipt = None
         /\ receipts[id].type = TYPE_PURCHASE
         /\ receipts[id].status = PENDING) =>
            /\ receipt_finish_response(s, id) = RET_OK
            /\ receipt_finish_result(s, id) = receipt_finish_writes(id)
            /\ receipt_abort_response(s, id) = RET_OK
            /\ receipt_abort_result(s, id) = receipt_abort_writes(id)

\* C30: after a logout, or a counter validation, the session holds no clerk,
\* no active receipt and no active compensation, and no receipt or item has
\* changed.
C30_LogoutClearsSession ==
    [][vars' # vars => \A s \in Sessions :
          (clerk_logout(s) \/ counter_validate(s)) =>
              /\ session'[s] = [clerk |-> None, receipt |-> None, compensation |-> None]
              /\ UNCHANGED db]_vars

\* ------------------------------------------------- box check-out, `changed`
\* items.count() of the box branch of item/checkout: `items` is the lazy query
\* for the Brought items of the box, items.update() drops what it had cached,
\* and the count is a new query that runs after the update.
checkout_box_changed(its, b) == Cardinality({j \in box_items(b) : its[j].state = BROUGHT})

\* The `changed` field of the answer to a check-out of the box of item i.
item_checkout_changed(i) == checkout_box_changed(checkout_box_items(items, box_id(i)), box_id(i))

\* The items a check-out of the box of item i moves from Brought to Returned.
checkout_moved(i) ==
    {j \in box_items(box_id(i)) :
        items[j].state = BROUGHT /\ checkout_box_items(items, box_id(i))[j].state = RETURNED}

\* C31: the `changed` count a box check-out reports is the number of items the
\* call moves from Brought to Returned.
C31_ChangedCount ==
    \A s \in Sessions, i \in BoxItems :
        (LoggedIn(s) /\ item_checkout_response(i, None) = RET_OK) =>
            item_checkout_changed(i) = Cardinality(checkout_moved(i))

====
